---- MODULE Spec2Model ----
(***************************************************************************)
(* A model of ab_test_analysis.py: the aggregation of analytics events     *)
(* into per-variant accumulators (ABTestAnalyzer._process_data), the       *)
(* derived VariantResults, the significance and sample-size computations,  *)
(* the text report (generate_report) and the command line driver (main).   *)
(*                                                                         *)
(* Python values are represented as follows.                               *)
(*   dict (insertion ordered)  a sequence of records, in insertion order   *)
(*   set of session ids        a set                                       *)
(*   float                     an exact fraction [n, d], d > 0, in lowest  *)
(*                             terms (equal fractions are the same float   *)
(*                             for the magnitudes the model reaches)       *)
(*   a report string           a sequence of blocks, a block a sequence of *)
(*                             lines, a line a tuple <<label, values...>>  *)
(*   a raised exception        a result record with outcome "raise"        *)
(***************************************************************************)
EXTENDS Integers, Sequences, FiniteSets, TLC

\* ------------------------------------------------------------------ bounds

\* Longest event list handed to ABTestAnalyzer in the analyzer specification.
MaxEvents == 4

\* Longest event list in the input file of the main specification.
MaxMainEvents == 3

\* ------------------------------------------------------------- input values

ExperimentIds == {"e1", "e2"}

VariantIds == {"A", "B", "C"}

SessionIds == {"s1", "s2"}

\* event.get('variantName', var_id): NoName stands for an absent key.
NoName == "<absent>"

\* The variantName an assignment event carries: the events of session s2
\* carry none, and no event of variant B carries one.
NameIn(v, s) ==
    IF s = "s2" \/ v = "B" THEN NoName
    ELSE IF v = "A" THEN "Control" ELSE "Blue"

\* The (experiment, variant, session) triples of the assignment events:
\* experiment e1 with variant A in both sessions and variants B and C in
\* one, experiment e2 with variant A.
AssignedKeys ==
    ({"e1"} \X {"A"} \X SessionIds)
    \cup ({"e1"} \X {"B", "C"} \X {"s1"})
    \cup {<<"e2", "A", "s1">>}

AssignedEvents ==
    { [name |-> "ab_test_assigned", experimentId |-> k[1], variantId |-> k[2],
       variantName |-> NameIn(k[2], k[3]), sessionId |-> k[3]] : k \in AssignedKeys }

\* The conversion branch reads experimentId and variantId only.
ConversionEvents ==
    { [name |-> "ab_test_conversion", experimentId |-> "e1", variantId |-> v,
       variantName |-> NoName, sessionId |-> "s1"] : v \in {"A", "B"} }

\* session_end and an event of an unrecognised name: no field but the name
\* is read.
OtherEvents ==
    { [name |-> n, experimentId |-> "e1", variantId |-> "A",
       variantName |-> NoName, sessionId |-> "s1"] :
        n \in {"session_end", "page_view"} }

Events == AssignedEvents \cup ConversionEvents \cup OtherEvents

\* An experiment id no event carries (for --experiment).
UnknownExperiment == "e9"

\* ---------------------------------------------------------------- fractions

Abs(x) == IF x < 0 THEN -x ELSE x

RECURSIVE Gcd(_, _)
Gcd(a, b) == IF b = 0 THEN a ELSE Gcd(b, a % b)

\* The fraction n/d (d # 0) in lowest terms with a positive denominator.
Frac(n, d) ==
    LET g == Gcd(Abs(n), Abs(d))
        s == IF d < 0 THEN -1 ELSE 1
    IN  [n |-> s * (n \div g), d |-> s * (d \div g)]

Zero == [n |-> 0, d |-> 1]

FSub(x, y) == Frac(x.n * y.d - y.n * x.d, x.d * y.d)

FDiv(x, y) == Frac(x.n * y.d, x.d * y.n)

FScale(x, k) == Frac(x.n * k, x.d)

FPos(x) == x.n > 0

FNeg(x) == x.n < 0

\* a/b < c/d for b, d > 0 and a, c >= 0, without forming a*d or c*b:
\* compare the integer parts, then the reciprocals of the remainders.
RECURSIVE FracLess(_, _, _, _)
FracLess(a, b, c, d) ==
    LET qa == a \div b
        qc == c \div d
        ra == a % b
        rc == c % d
    IN  IF qa # qc THEN qa < qc
        ELSE IF rc = 0 THEN FALSE
        ELSE IF ra = 0 THEN TRUE
        ELSE FracLess(d, rc, b, ra)

\* ------------------------------------------------------------------- state

VARIABLES
    SCIPY_AVAILABLE,  \* the module flag set by the guarded import
    data,             \* ABTestAnalyzer.data: the events processed so far
    experiments,      \* ABTestAnalyzer.experiments
    pc,               \* position of the running program
    report,           \* outcome of the last generate_report call
    args,             \* main: the parsed command line
    file,             \* main: the parsed JSON content of --input
    todo,             \* main: experiment ids still to analyse
    reports,          \* main: the list `reports`
    stdout,           \* main: what has been printed, in order
    outfile,          \* main: content written to --output
    variant_a,        \* significance engine: first argument
    variant_b,        \* significance engine: second argument
    sig               \* significance engine: outcome of the last call

vars == <<SCIPY_AVAILABLE, data, experiments, pc, report, args, file, todo,
          reports, stdout, outfile, variant_a, variant_b, sig>>

mainVars == <<args, file, todo, reports, stdout, outfile>>

sigVars == <<variant_a, variant_b, sig>>

\* -------------------------------------------------------------- aggregation

\* Position of key k in an insertion-ordered dict d (0 when absent).
IndexOf(d, k) ==
    IF \E i \in 1..Len(d) : d[i].id = k
    THEN CHOOSE i \in 1..Len(d) : d[i].id = k
    ELSE 0

Has(d, k) == IndexOf(d, k) # 0

Keys(d) == [i \in 1..Len(d) |-> d[i].id]

NewAccumulator(event) ==
    [id |-> event.variantId,
     name |-> IF event.variantName = NoName THEN event.variantId
              ELSE event.variantName,
     users |-> {},
     conversions |-> 0,
     session_durations |-> <<>>,
     interactions |-> <<>>]

\* Faulty variant of InsertKey: the new key comes first in the iteration order.
InsertKeyFirst(d, entry) == <<entry>> \o d

\* d[k] = entry for a key k that d does not hold: the new key comes last in
\* the iteration order of the dict.
InsertKey(d, entry) == Append(d, entry)

\* Faulty variant of AddUser: every event adds an element, as a list would.
AddUserNoDedup(users, sessionId) == users \cup {<<sessionId, Cardinality(users)>>}

\* users.add(sessionId) on the set of session ids of an accumulator.
AddUser(users, sessionId) == users \cup {sessionId}

\* The ab_test_assigned branch of the loop body.
ProcessAssigned(exps, event) ==
    LET e1 == IF Has(exps, event.experimentId) THEN exps
              ELSE InsertKey(exps, [id |-> event.experimentId, variants |-> <<>>])
        i  == IndexOf(e1, event.experimentId)
        vs == e1[i].variants
        v1 == IF Has(vs, event.variantId) THEN vs
              ELSE InsertKey(vs, NewAccumulator(event))
        j  == IndexOf(v1, event.variantId)
        v2 == [v1 EXCEPT ![j].users = AddUser(@, event.sessionId)]
    IN  [e1 EXCEPT ![i].variants = v2]

\* Faulty variant of ProcessConversion: a missing accumulator is created on the fly.
ProcessConversionCreating(exps, event) ==
    LET e1 == IF Has(exps, event.experimentId) THEN exps
              ELSE Append(exps, [id |-> event.experimentId, variants |-> <<>>])
        i  == IndexOf(e1, event.experimentId)
        vs == e1[i].variants
        v1 == IF Has(vs, event.variantId) THEN vs
              ELSE Append(vs, NewAccumulator(event))
        j  == IndexOf(v1, event.variantId)
    IN  [e1 EXCEPT ![i].variants = [v1 EXCEPT ![j].conversions = @ + 1]]

\* The ab_test_conversion branch of the loop body.
ProcessConversion(exps, event) ==
    IF Has(exps, event.experimentId)
       /\ Has(exps[IndexOf(exps, event.experimentId)].variants, event.variantId)
    THEN LET i == IndexOf(exps, event.experimentId)
             j == IndexOf(exps[i].variants, event.variantId)
         IN  [exps EXCEPT ![i].variants[j].conversions = @ + 1]
    ELSE exps

\* One iteration of the loop of _process_data.
ProcessOne(exps, event) ==
    IF event.name = "ab_test_assigned" THEN ProcessAssigned(exps, event)
    ELSE IF event.name = "ab_test_conversion" THEN ProcessConversion(exps, event)
    ELSE IF event.name = "session_end" THEN exps
    ELSE exps

\* The whole loop of _process_data over an event list, from `exps`.
RECURSIVE ProcessData(_, _)
ProcessData(exps, events) ==
    IF events = <<>> THEN exps
    ELSE ProcessData(ProcessOne(exps, Head(events)), Tail(events))

\* ---------------------------------------------------------- VariantResults

\* Faulty variant of PostInit: without users the constructor's argument is kept.
PostInitKeepsArgument(v) ==
    [v EXCEPT !.conversion_rate =
        IF v.total_users > 0
        THEN FScale(Frac(v.conversions, v.total_users), 100)
        ELSE @]

\* VariantResults.__post_init__: conversion_rate is overwritten, whatever
\* value the constructor was given.
PostInit(v) ==
    [v EXCEPT !.conversion_rate =
        IF v.total_users > 0
        THEN FScale(Frac(v.conversions, v.total_users), 100)
        ELSE Zero]

\* The dataclass constructor followed by __post_init__.
VariantResults(variant_id, variant_name, total_users, conversions, conversion_rate, avg_session_duration, avg_interactions) ==
    PostInit([variant_id |-> variant_id,
              variant_name |-> variant_name,
              total_users |-> total_users,
              conversions |-> conversions,
              conversion_rate |-> conversion_rate,
              avg_session_duration |-> avg_session_duration,
              avg_interactions |-> avg_interactions])

RECURSIVE SeqSum(_)
SeqSum(s) == IF s = <<>> THEN 0 ELSE Head(s) + SeqSum(Tail(s))

\* np.mean(xs) if xs else 0
MeanOrZero(xs) == IF xs # <<>> THEN Frac(SeqSum(xs), Len(xs)) ELSE Zero

\* The VariantResults built from one accumulator.
ResultOf(acc) ==
    VariantResults(acc.id, acc.name, Cardinality(acc.users), acc.conversions,
                   Zero, MeanOrZero(acc.session_durations),
                   MeanOrZero(acc.interactions))

\* get_variant_results: the results in insertion order of the variants; the
\* empty dict for an experiment id that is not a key of experiments.
get_variant_results(exps, experiment_id) ==
    IF ~Has(exps, experiment_id) THEN <<>>
    ELSE LET vs == exps[IndexOf(exps, experiment_id)].variants
         IN  [i \in 1..Len(vs) |-> ResultOf(vs[i])]

\* ------------------------------------------------------ significance engine

\* _check_sample_size: the rule of thumb thresholds.
min_users == 100

min_conversions == 5

_check_sample_size(a, b) ==
    /\ a.total_users >= min_users
    /\ b.total_users >= min_users
    /\ a.conversions >= min_conversions
    /\ b.conversions >= min_conversions

\* What a call can do: return a value or raise.
Return(v) == [outcome |-> "return", exc |-> "", value |-> v]

Raise(e) == [outcome |-> "raise", exc |-> e, value |-> <<>>]

\* stats.chi2_contingency on the 2x2 table <<<<a, b>>, <<c, d>>>> (library
\* behaviour, with the default Yates correction for one degree of freedom):
\*   - ValueError for a negative entry, or for an expected frequency of zero
\*     (a zero row or column sum of a non-empty table);
\*   - for an all-zero table the expected frequencies are 0/0: the library
\*     either raises or yields nan, under which p_value < 0.05 is false;
\*   - otherwise chi2 = max(0, 2|ad - bc| - N)^2 * N / (4 r1 r2 c1 c2), and
\*     p_value < 0.05 iff chi2 > 3.84146, i.e. 4 chi2 > 15.3658.
\* chi2 is kept as its terms; p_value is determined by chi2.
Chi2Contingency(a, b, c, d) ==
    LET r1 == a + b
        r2 == c + d
        c1 == a + c
        c2 == b + d
        N  == a + b + c + d
        D  == Abs(a * d - b * c)
        g  == IF 2 * D > N THEN 2 * D - N ELSE 0
        stat(nan) == [nan |-> nan, excess |-> g, total |-> N,
                      rows |-> <<r1, r2>>, cols |-> <<c1, c2>>]
    IN  IF a < 0 \/ b < 0 \/ c < 0 \/ d < 0 THEN {Raise("ValueError")}
        ELSE IF N = 0
             THEN {Raise("ValueError"),
                   Return([chi2 |-> stat(TRUE), p_lt_005 |-> FALSE])}
        ELSE IF r1 = 0 \/ r2 = 0 \/ c1 = 0 \/ c2 = 0 THEN {Raise("ValueError")}
        ELSE {Return([chi2 |-> stat(FALSE),
                      p_lt_005 |-> FracLess(153658 * c1 * c2, 10000 * N,
                                            g * g, r1 * r2)])}

\* calculate_significance with the statistics library present: the
\* possible outcomes of the chi-square test and the derived figures.
ComputeSignificance(a, b) ==
    LET rate_diff == FSub(b.conversion_rate, a.conversion_rate)
        relative_lift ==
            IF FPos(a.conversion_rate)
            THEN FScale(FDiv(FSub(b.conversion_rate, a.conversion_rate),
                             a.conversion_rate), 100)
            ELSE Zero
    IN  { IF t.outcome = "raise" THEN t
          ELSE Return([p_value |-> [sf_of |-> t.value.chi2],
                       significant |-> t.value.p_lt_005,
                       confidence_level |-> [one_minus_sf_of |-> t.value.chi2],
                       rate_difference |-> rate_diff,
                       relative_lift |-> relative_lift,
                       chi_square |-> t.value.chi2,
                       sample_size_adequate |-> _check_sample_size(a, b)]) :
          t \in Chi2Contingency(a.conversions, a.total_users - a.conversions,
                                b.conversions, b.total_users - b.conversions) }

\* Faulty variant of calculate_significance: the availability check is missing.
calculate_significance_unguarded(scipy, a, b) == ComputeSignificance(a, b)

\* calculate_significance: the set of possible outcomes of one call.
calculate_significance(scipy, a, b) ==
    IF ~scipy
    THEN {Return([error |-> "scipy not available", significant |-> FALSE])}
    ELSE ComputeSignificance(a, b)

\* calculate_sample_size_needed with the default alpha and power.
\*   p1 = baseline_rate / 100,  p2 = p1 * (1 + mde / 100)
\*   h  = 2 (asin sqrt p2 - asin sqrt p1),  n = ceil((z_a + z_b)^2 / h^2)
\* math.asin raises ValueError when sqrt(p2) > 1; h = 0 (p1 = 0 or mde = 0)
\* makes the quotient a division by zero, which ends in an ArithmeticError
\* (ZeroDivisionError, or OverflowError from ceil of an infinite quotient).
\* The returned integer is kept as the term of its two arguments.
calculate_sample_size_needed(scipy, baseline_rate, minimum_detectable_effect) ==
    IF ~scipy THEN Return(0)
    ELSE IF baseline_rate.n * (100 + minimum_detectable_effect)
              > 100 * 100 * baseline_rate.d
         THEN Raise("ValueError")
    ELSE IF baseline_rate.n = 0 \/ minimum_detectable_effect = 0
         THEN Raise("ArithmeticError")
    ELSE Return([ceil_power_n |-> TRUE, baseline_rate |-> baseline_rate,
                 minimum_detectable_effect |-> minimum_detectable_effect])

\* ------------------------------------------------------------ report renderer

\* floor(|x| * 10^k) by long division, with the remainder: <<quotient, rest>>.
RECURSIVE LongDiv(_, _, _, _)
LongDiv(q, r, d, k) ==
    IF k = 0 THEN <<q, r>>
    ELSE LongDiv(q * 10 + ((r * 10) \div d), (r * 10) % d, d, k - 1)

\* format(x, ".<k>f") (plus = FALSE) and format(x, "+.<k>f") (plus = TRUE):
\* the sign shown and |x| in units of 10^-k, rounded to nearest, ties to even.
Fixed(x, k, plus) ==
    LET m  == Abs(x.n)
        qr == LongDiv(m \div x.d, m % x.d, x.d, k)
        up == 2 * qr[2] > x.d \/ (2 * qr[2] = x.d /\ qr[1] % 2 = 1)
    IN  [sign |-> IF x.n < 0 THEN "-" ELSE IF plus THEN "+" ELSE "",
         units |-> IF up THEN qr[1] + 1 ELSE qr[1],
         digits |-> k]

Rule == <<"====">>

Dash == <<"----">>

\* The title and the heading of the performance section.
TitleBlock(experiment_id) ==
    <<Rule, <<"A/B TEST REPORT:", experiment_id>>, Rule, <<"">>,
      <<"VARIANT PERFORMANCE">>, Dash>>

\* The performance block of one variant.
PerformanceBlock(v) ==
    <<<<"variant", v.variant_name, v.variant_id>>,
      <<"Total Users:", v.total_users>>,
      <<"Conversions:", v.conversions>>,
      <<"Conversion Rate:", Fixed(v.conversion_rate, 2, FALSE)>>,
      <<"Avg Session:", Fixed(v.avg_session_duration, 1, FALSE)>>,
      <<"Avg Interactions:", Fixed(v.avg_interactions, 1, FALSE)>>>>

AnalysisHeading == <<Rule, <<"STATISTICAL ANALYSIS">>, Rule>>

Footer == <<Rule>>

\* The recommendation lines of one comparison, given a computed result s.
Recommendation(scipy, control, variant, s) ==
    IF ~s.sample_size_adequate
    THEN LET needed == calculate_sample_size_needed(scipy, control.conversion_rate, 10)
         IN  IF needed.outcome = "raise" THEN needed
             ELSE Return(<<<<"Continue test - need users per variant:", needed.value>>>>)
    ELSE IF s.significant /\ FPos(s.relative_lift)
         THEN Return(<<<<"IMPLEMENT", variant.variant_name>>>>)
    ELSE IF s.significant /\ FNeg(s.relative_lift)
         THEN Return(<<<<"REJECT", variant.variant_name>>>>)
    ELSE Return(<<<<"NO CLEAR WINNER">>>>)

\* One iteration of the comparison loop of generate_report once
\* calculate_significance has ended with outcome c: a block of lines, or an
\* exception.
BlockOf(scipy, control, variant, c) ==
    LET head == <<<<"vs", variant.variant_name, control.variant_name>>, Dash>>
        body(s) ==
            <<<<"Conversion Rate Difference:", Fixed(s.rate_difference, 2, TRUE)>>,
              <<"Relative Lift:", Fixed(s.relative_lift, 2, TRUE)>>,
              <<"P-value:", s.p_value>>,
              <<"Confidence Level:", s.confidence_level>>,
              <<"Statistically Significant:", s.significant>>,
              <<"Sample Size Adequate:", s.sample_size_adequate>>,
              <<"Recommendation:">>>>
        block(s) ==
            IF "error" \in DOMAIN s
            THEN Return(head \o <<<<"Error:", s.error>>>>)
            ELSE LET rec == Recommendation(scipy, control, variant, s)
                 IN  IF rec.outcome = "raise" THEN rec
                     ELSE Return(head \o body(s) \o rec.value)
    IN  IF c.outcome = "raise" THEN c ELSE block(c.value)

\* One iteration of the comparison loop of generate_report: the possible
\* outcomes.
ComparisonBlock(scipy, control, variant) ==
    { BlockOf(scipy, control, variant, c) :
      c \in calculate_significance(scipy, control, variant) }

\* The comparison loop over the non-control variants: the blocks in order,
\* or the first exception.
RECURSIVE Comparisons(_, _, _)
Comparisons(scipy, control, others) ==
    IF others = <<>> THEN {Return(<<>>)}
    ELSE UNION { IF c.outcome = "raise" THEN {c}
                 ELSE { IF r.outcome = "raise" THEN r
                        ELSE Return(<<c.value>> \o r.value) :
                        r \in Comparisons(scipy, control, Tail(others)) } :
                 c \in ComparisonBlock(scipy, control, Head(others)) }

InsufficientData(experiment_id) ==
    <<<<<<"Insufficient data for experiment:", experiment_id>>>>>>

\* Faulty variant of InsufficientResults: a single variant is enough.
InsufficientResultsOffByOne(results) == Len(results) < 1

\* len(results) < 2
InsufficientResults(results) == Len(results) < 2

\* generate_report: the possible outcomes of one call, a report (a sequence
\* of blocks) or an exception.
generate_report(scipy, exps, experiment_id) ==
    LET results == get_variant_results(exps, experiment_id)
    IN  IF InsufficientResults(results) THEN {Return(InsufficientData(experiment_id))}
        ELSE LET variants == results
                 control  == variants[1]
                 perf     == [i \in 1..Len(variants) |-> PerformanceBlock(variants[i])]
             IN  { IF c.outcome = "raise" THEN c
                   ELSE Return(<<TitleBlock(experiment_id)>> \o perf
                               \o <<AnalysisHeading>> \o c.value \o <<Footer>>) :
                   c \in Comparisons(scipy, control, Tail(variants)) }

\* ------------------------------------------------------ analyzer: actions

NoOutcome == [outcome |-> "none", exc |-> "", value |-> <<>>]

NoReport == [experiment_id |-> "", result |-> NoOutcome]

NoVariant == [variant_id |-> "", variant_name |-> "", total_users |-> 0, conversions |-> 0, conversion_rate |-> Zero, avg_session_duration |-> Zero, avg_interactions |-> Zero]

MainIdle ==
    /\ args = [input |-> "", experiment |-> "", output |-> "", format |-> ""]
    /\ file = [shape |-> "", events |-> <<>>]
    /\ todo = <<>>
    /\ reports = <<>>
    /\ stdout = <<>>
    /\ outfile = <<>>

SigIdle ==
    /\ variant_a = NoVariant
    /\ variant_b = NoVariant
    /\ sig = NoOutcome

\* ABTestAnalyzer(data) for an event list of any length up to MaxEvents:
\* __init__ starts from no experiments and runs the loop of _process_data.
Init ==
    /\ SCIPY_AVAILABLE \in BOOLEAN
    /\ data = <<>>
    /\ experiments = <<>>
    /\ pc = "processing"
    /\ report = NoReport
    /\ MainIdle
    /\ SigIdle

\* One iteration of the loop of _process_data, on the next event of the list.
ProcessEvent ==
    /\ pc = "processing"
    /\ Len(data) < MaxEvents
    /\ \E event \in Events :
        /\ data' = Append(data, event)
        /\ experiments' = ProcessOne(experiments, event)
    /\ UNCHANGED <<SCIPY_AVAILABLE, pc, report, mainVars, sigVars>>

\* The event list is exhausted: the constructor returns.
EndOfData ==
    /\ pc = "processing"
    /\ pc' = "ready"
    /\ UNCHANGED <<SCIPY_AVAILABLE, data, experiments, report, mainVars, sigVars>>

\* A call of generate_report on the constructed analyzer.
GenerateReport ==
    /\ pc = "ready"
    /\ \E id \in ExperimentIds :
        \E r \in generate_report(SCIPY_AVAILABLE, experiments, id) :
            report' = [experiment_id |-> id, result |-> r]
    /\ UNCHANGED <<SCIPY_AVAILABLE, data, experiments, pc, mainVars, sigVars>>

Next == ProcessEvent \/ EndOfData \/ GenerateReport

Spec == Init /\ [][Next]_vars

\* ------------------------------------------- significance engine: actions

\* total_users and conversions handed to the VariantResults constructor.
SigUsers == {0, 1, 2, 99, 100}

SigConversions == {0, 1, 4, 5, 30}

\* conversion_rate handed to the constructor (get_variant_results passes 0).
SigRateArgs == {Zero, Frac(50, 1)}

\* The constructor arguments, as the fields hold them before __post_init__.
RawVariants(id) ==
    { [variant_id |-> id, variant_name |-> id, total_users |-> u,
       conversions |-> c, conversion_rate |-> r,
       avg_session_duration |-> Zero, avg_interactions |-> Zero] :
        u \in SigUsers, c \in SigConversions, r \in SigRateArgs }

InitSig ==
    /\ SCIPY_AVAILABLE \in BOOLEAN
    /\ data = <<>>
    /\ experiments = <<>>
    /\ pc = "sig_args"
    /\ report = NoReport
    /\ MainIdle
    /\ variant_a \in RawVariants("A")
    /\ variant_b \in RawVariants("B")
    /\ sig = NoOutcome

\* The two VariantResults are constructed.
Construct ==
    /\ pc = "sig_args"
    /\ variant_a' = VariantResults(variant_a.variant_id, variant_a.variant_name, variant_a.total_users, variant_a.conversions, variant_a.conversion_rate, variant_a.avg_session_duration, variant_a.avg_interactions)
    /\ variant_b' = VariantResults(variant_b.variant_id, variant_b.variant_name, variant_b.total_users, variant_b.conversions, variant_b.conversion_rate, variant_b.avg_session_duration, variant_b.avg_interactions)
    /\ pc' = "sig_built"
    /\ UNCHANGED <<SCIPY_AVAILABLE, data, experiments, report, mainVars, sig>>

\* calculate_significance(variant_a, variant_b).
CalculateSignificance ==
    /\ pc = "sig_built"
    /\ \E o \in calculate_significance(SCIPY_AVAILABLE, variant_a, variant_b) :
        sig' = o
    /\ pc' = "sig_done"
    /\ UNCHANGED <<SCIPY_AVAILABLE, data, experiments, report, mainVars,
                   variant_a, variant_b>>

\* The rest of the body of the comparison loop of generate_report, with
\* variant_a as the control, variant_b as the variant compared against it and
\* sig the outcome of calculate_significance.
Compare ==
    /\ pc = "sig_done"
    /\ report' = [experiment_id |-> "",
                  result |-> BlockOf(SCIPY_AVAILABLE, variant_a, variant_b, sig)]
    /\ pc' = "compared"
    /\ UNCHANGED <<SCIPY_AVAILABLE, data, experiments, mainVars, sigVars>>

NextSig == Construct \/ CalculateSignificance \/ Compare

SpecSig == InitSig /\ [][NextSig]_vars

\* ------------------------------------------------------------ main: actions

\* An option that was not given (None).
NoArg == ""

Args ==
    { [input |-> "in.json", experiment |-> e, output |-> o, format |-> f] :
        e \in {NoArg, "e1", UnknownExperiment},
        o \in {NoArg, "out"},
        f \in {"text", "json"} }

RECURSIVE SeqsUpTo(_, _)
SeqsUpTo(S, n) ==
    IF n = 0 THEN {<<>>}
    ELSE LET shorter == SeqsUpTo(S, n - 1)
         IN  shorter \cup { Append(q, x) : q \in shorter, x \in S }

\* The parsed JSON of the input file: an object with an "events" key, a bare
\* list, or any other value.
Files ==
    { [shape |-> sh, events |-> ev] :
        sh \in {"object", "list"}, ev \in SeqsUpTo(Events, MaxMainEvents) }
    \cup {[shape |-> "other", events |-> <<>>]}

\* load_analytics_data on the parsed content.
load_analytics_data(f) ==
    IF f.shape = "object" THEN Return(f.events)
    ELSE IF f.shape = "list" THEN Return(f.events)
    ELSE Raise("ValueError")

InitMain ==
    /\ SCIPY_AVAILABLE \in BOOLEAN
    /\ data = <<>>
    /\ experiments = <<>>
    /\ pc = "main"
    /\ report = NoReport
    /\ args \in Args
    /\ file \in Files
    /\ todo = <<>>
    /\ reports = <<>>
    /\ stdout = <<>>
    /\ outfile = <<>>
    /\ SigIdle

\* main up to the report loop: load the data, build the analyzer and choose
\* the experiments to report.
MainLoad ==
    /\ pc = "main"
    /\ LET loaded == load_analytics_data(file)
           exps   == ProcessData(<<>>, loaded.value)
       IN  IF loaded.outcome = "raise"
           THEN /\ stdout' = <<<<"Loading data from", args.input>>>>
                /\ pc' = "crashed"
                /\ UNCHANGED <<data, experiments, todo>>
           ELSE /\ stdout' = <<<<"Loading data from", args.input>>,
                               <<"Loaded events:", Len(loaded.value)>>>>
                /\ data' = loaded.value
                /\ experiments' = exps
                /\ todo' = IF args.experiment # NoArg THEN <<args.experiment>>
                           ELSE Keys(exps)
                /\ pc' = "reporting"
    /\ UNCHANGED <<SCIPY_AVAILABLE, report, args, file, reports, outfile, sigVars>>

\* Faulty variant of PrintsReport: the report is printed in every format.
PrintsReportAlways(format) == TRUE

\* if args.format == 'text': print(report)
PrintsReport(format) == format = "text"

\* One iteration of the report loop.
MainReport ==
    /\ pc = "reporting"
    /\ todo # <<>>
    /\ LET exp_id  == Head(todo)
           printed == Append(stdout, <<"Analyzing experiment:", exp_id>>)
       IN  \E r \in generate_report(SCIPY_AVAILABLE, experiments, exp_id) :
             /\ report' = [experiment_id |-> exp_id, result |-> r]
             /\ IF r.outcome = "raise"
                THEN /\ stdout' = printed
                     /\ pc' = "crashed"
                     /\ UNCHANGED <<todo, reports>>
                ELSE /\ reports' = Append(reports, r.value)
                     /\ stdout' = IF PrintsReport(args.format)
                                  THEN Append(printed, <<"report", r.value>>)
                                  ELSE printed
                     /\ todo' = Tail(todo)
                     /\ pc' = "reporting"
    /\ UNCHANGED <<SCIPY_AVAILABLE, data, experiments, args, file, outfile, sigVars>>

\* '\n\n'.join(reports)
RECURSIVE JoinReports(_)
JoinReports(rs) ==
    IF rs = <<>> THEN <<>>
    ELSE IF Len(rs) = 1 THEN <<Head(rs)>>
    ELSE <<Head(rs), <<"\n\n">>>> \o JoinReports(Tail(rs))

\* The experiment ids main reports on.
MainExperiments ==
    IF args.experiment # NoArg THEN <<args.experiment>> ELSE Keys(experiments)

\* The object json.dump writes: the variant results of every reported id.
JsonOutput ==
    [experiments |->
        [i \in 1..Len(MainExperiments) |->
            [id |-> MainExperiments[i],
             variants |-> get_variant_results(experiments, MainExperiments[i])]]]

\* After the loop: the output file is written when --output was given.
MainSave ==
    /\ pc = "reporting"
    /\ todo = <<>>
    /\ IF args.output # NoArg
       THEN /\ outfile' = IF args.format = "text"
                          THEN <<[format |-> "text", content |-> JoinReports(reports)]>>
                          ELSE <<[format |-> "json", content |-> JsonOutput]>>
            /\ stdout' = Append(stdout, <<"Report saved to", args.output>>)
       ELSE UNCHANGED <<outfile, stdout>>
    /\ pc' = "done"
    /\ UNCHANGED <<SCIPY_AVAILABLE, data, experiments, report, args, file, todo,
                   reports, sigVars>>

NextMain == MainLoad \/ MainReport \/ MainSave

SpecMain == InitMain /\ [][NextMain]_vars

\* ================================================================== claims

\* ------------------------------------------------- what the claims speak of

\* The distinct session ids of the ab_test_assigned events of a pair.
AssignedSessions(x, v) ==
    { data[i].sessionId :
        i \in { j \in 1..Len(data) :
                  /\ data[j].name = "ab_test_assigned"
                  /\ data[j].experimentId = x
                  /\ data[j].variantId = v } }

\* The results get_variant_results reports for variant v of experiment x.
ResultsFor(x, v) ==
    LET rs == get_variant_results(experiments, x)
    IN  { rs[i] : i \in { j \in 1..Len(rs) : rs[j].variant_id = v } }

\* Whether (x, v) has an accumulator in exps.
HasAccumulator(exps, x, v) ==
    Has(exps, x) /\ Has(exps[IndexOf(exps, x)].variants, v)

\* The number of variants aggregation recorded for experiment x.
VariantCount(x) ==
    IF Has(experiments, x) THEN Len(experiments[IndexOf(experiments, x)].variants)
    ELSE 0

\* The variant ids of experiment x in the order of their first
\* ab_test_assigned event in an event list.
RECURSIVE FirstSeen(_, _, _)
FirstSeen(events, x, seen) ==
    IF events = <<>> THEN seen
    ELSE LET e == Head(events)
             new == /\ e.name = "ab_test_assigned"
                    /\ e.experimentId = x
                    /\ \A i \in 1..Len(seen) : seen[i] # e.variantId
         IN  FirstSeen(Tail(events), x, IF new THEN Append(seen, e.variantId) ELSE seen)

IsPerformanceBlock(b) == b[1][1] = "variant"

IsComparisonBlock(b) == b[1][1] = "vs"

\* generate_report has been called on the analyzer and has ended.
Reported == pc = "ready" /\ report.experiment_id # ""

PerformanceBlocks == SelectSeq(report.result.value, IsPerformanceBlock)

ComparisonBlocks == SelectSeq(report.result.value, IsComparisonBlock)

\* ---------------------------------------------------------------------- C1

C1_Counts ==
    \A x \in ExperimentIds :
        LET rs == get_variant_results(experiments, x)
        IN  /\ \A i \in 1..Len(rs) :
                /\ rs[i].total_users
                     = Cardinality(AssignedSessions(x, rs[i].variant_id))
                /\ rs[i].total_users >= 1
                /\ \A j \in 1..Len(rs) :
                       rs[j].variant_id = rs[i].variant_id => j = i
            /\ \A v \in VariantIds :
                   AssignedSessions(x, v) # {} =>
                       \E i \in 1..Len(rs) : rs[i].variant_id = v

C1_Repeat ==
    \A e \in AssignedEvents :
        (/\ Len(data') = Len(data) + 1
         /\ data'[Len(data')] = e
         /\ e.sessionId \in AssignedSessions(e.experimentId, e.variantId))
        => get_variant_results(experiments', e.experimentId)
             = get_variant_results(experiments, e.experimentId)

\* C1: for every (experiment, variant) pair, total_users as reported by
\* get_variant_results is the number of distinct session ids among the
\* ab_test_assigned events of the pair processed so far, and processing a
\* repeated ab_test_assigned event of a session leaves the results of the
\* experiment as they were.
C1_TotalUsersCountsDistinctSessions == [] C1_Counts /\ [][C1_Repeat]_vars

\* An assignment event was repeated for a session and the variant still
\* reports one user.
C1_Witness ==
    /\ \E i, j \in 1..Len(data) :
        /\ i < j
        /\ data[i] = data[j]
        /\ data[i].name = "ab_test_assigned"
        /\ \A r \in ResultsFor(data[i].experimentId, data[i].variantId) :
               r.total_users = 1
    /\ pc = "ready"

\* ---------------------------------------------------------------------- C2

C2_Dropped ==
    (/\ Len(data') = Len(data) + 1
     /\ data'[Len(data')].name = "ab_test_conversion"
     /\ ~HasAccumulator(experiments, data'[Len(data')].experimentId,
                        data'[Len(data')].variantId))
    => experiments' = experiments

C2_NoPhantom ==
    \A x \in ExperimentIds, v \in VariantIds :
        AssignedSessions(x, v) = {} => ResultsFor(x, v) = {}

\* C2: processing an ab_test_conversion event whose pair has no accumulator
\* leaves the experiments mapping unchanged, and a variant without an
\* assignment event never appears in get_variant_results.
C2_UnseenConversionDropped == [][C2_Dropped]_vars /\ [] C2_NoPhantom

\* A conversion for variant B of an experiment that so far holds variant A
\* only has been processed, and nothing was created or counted.
C2_Witness ==
    /\ Len(data) = 2
    /\ data[1].name = "ab_test_assigned"
    /\ data[2].name = "ab_test_conversion"
    /\ data[2].experimentId = data[1].experimentId
    /\ data[2].variantId # data[1].variantId
    /\ Len(experiments) = 1
    /\ Len(experiments[1].variants) = 1
    /\ experiments[1].variants[1].conversions = 0

\* ---------------------------------------------------------------------- C3

Constructed == {variant_a, variant_b}

\* C3 as stated: conversion_rate is 0 if and only if total_users is 0.
C3_RateZeroIffNoUsers ==
    pc \in {"sig_built", "sig_done", "compared"} =>
        \A v \in Constructed : (v.conversion_rate = Zero) <=> (v.total_users = 0)

\* C3 as amended: conversion_rate is 0 whenever total_users is 0, whatever
\* conversions is; with total_users > 0 it is conversions / total_users * 100,
\* which is 0 exactly when conversions is 0.
C3_RateZeroIffNoUsersOrNoConversions ==
    pc \in {"sig_built", "sig_done", "compared"} =>
        \A v \in Constructed :
            /\ v.total_users = 0 => v.conversion_rate = Zero
            /\ v.total_users > 0 =>
                   /\ v.conversion_rate.d > 0
                   /\ v.conversion_rate.n * v.total_users
                        = 100 * v.conversions * v.conversion_rate.d
                   /\ (v.conversion_rate = Zero) <=> (v.conversions = 0)

\* A VariantResults without users and with conversions has been constructed,
\* and one with users and without conversions.
C3_Witness ==
    /\ pc = "sig_built"
    /\ variant_a.total_users = 0
    /\ variant_a.conversions > 0
    /\ variant_a.conversion_rate = Zero
    /\ variant_b.total_users > 0
    /\ variant_b.conversions = 0

\* ---------------------------------------------------------------------- C4

\* C4 as stated: for an experiment with n >= 2 variants generate_report
\* returns a report with n performance blocks and n - 1 comparison blocks.
C4_ReportHasAllBlocks ==
    (Reported /\ VariantCount(report.experiment_id) >= 2) =>
        /\ report.result.outcome = "return"
        /\ Len(PerformanceBlocks) = VariantCount(report.experiment_id)
        /\ Len(ComparisonBlocks) = VariantCount(report.experiment_id) - 1

\* ---------------------------------------------------------------------- C5

\* The recommendation line C5 prescribes for a computed result s.
C5_Prescribed(line, s) ==
    IF ~s.sample_size_adequate
    THEN /\ line[1] = "Continue test - need users per variant:"
         /\ line[2] = [ceil_power_n |-> TRUE,
                       baseline_rate |-> variant_a.conversion_rate,
                       minimum_detectable_effect |-> 10]
    ELSE IF s.significant /\ s.relative_lift.n > 0
         THEN line = <<"IMPLEMENT", variant_b.variant_name>>
    ELSE IF s.significant /\ s.relative_lift.n < 0
         THEN line = <<"REJECT", variant_b.variant_name>>
    ELSE line = <<"NO CLEAR WINNER">>

\* C5 as stated: with the statistics library present, a comparison of two
\* variants with users whose significance was computed ends in a block whose last line is the one
\* recommendation the decision order prescribes; an inadequate sample (a
\* control without conversions included) yields the continue line with a
\* sample size.
C5_RecommendationAlwaysStated ==
    (/\ pc = "compared"
     /\ SCIPY_AVAILABLE
     /\ variant_a.total_users > 0
     /\ variant_b.total_users > 0
     /\ sig.outcome = "return") =>
        /\ report.result.outcome = "return"
        /\ Len(SelectSeq(report.result.value,
                         LAMBDA l : l[1] = "Recommendation:")) = 1
        /\ report.result.value[Len(report.result.value) - 1] = <<"Recommendation:">>
        /\ C5_Prescribed(report.result.value[Len(report.result.value)], sig.value)

\* ---------------------------------------------------------------------- C6

C6_Message ==
    (Reported /\ VariantCount(report.experiment_id) < 2) =>
        report.result =
            [outcome |-> "return", exc |-> "",
             value |-> <<<<<<"Insufficient data for experiment:",
                             report.experiment_id>>>>>>]

C6_Frame == pc = "ready" => (experiments' = experiments /\ data' = data)

\* C6: for an experiment id with fewer than two recorded variants (one, or
\* none because the id was never assigned) generate_report returns exactly
\* the insufficient-data line for that id, does not raise, and a call of
\* generate_report leaves the aggregated state as it was.
C6_InsufficientData == [] C6_Message /\ [][C6_Frame]_vars

\* A report was asked for an experiment with exactly one variant, which has
\* conversions, while another experiment is recorded too.
C6_Witness ==
    /\ Reported
    /\ VariantCount(report.experiment_id) = 1
    /\ Len(experiments) = 2
    /\ report.result.outcome = "return"
    /\ \E v \in VariantIds :
         \E r \in ResultsFor(report.experiment_id, v) : r.conversions > 0

\* ---------------------------------------------------------------------- C7

C7_Unavailable == [error |-> "scipy not available", significant |-> FALSE]

C7_EveryPair ==
    \A x \in ExperimentIds :
        LET rs == get_variant_results(experiments, x)
        IN  \A i, j \in 1..Len(rs) :
                calculate_significance(SCIPY_AVAILABLE, rs[i], rs[j])
                    = {[outcome |-> "return", exc |-> "", value |-> C7_Unavailable]}

C7_EveryBlock ==
    (Reported /\ VariantCount(report.experiment_id) >= 2) =>
        /\ report.result.outcome = "return"
        /\ Len(ComparisonBlocks) = VariantCount(report.experiment_id) - 1
        /\ \A k \in 1..Len(ComparisonBlocks) :
            /\ Len(ComparisonBlocks[k]) = 3
            /\ ComparisonBlocks[k][2] = <<"----">>
            /\ ComparisonBlocks[k][3] = <<"Error:", "scipy not available">>

\* C7: without the statistics library calculate_significance returns, for
\* every pair of variants, significant = false with the error indicator and
\* does not raise, and every comparison block of a report consists of its
\* heading and that indicator alone: no difference, lift, p-value,
\* confidence, adequacy flag, recommendation or sample size.
C7_UnavailableShown == ~SCIPY_AVAILABLE => (C7_EveryPair /\ C7_EveryBlock)

\* Without the library a report over three variants, the control with a
\* conversion, was returned.
C7_Witness ==
    /\ ~SCIPY_AVAILABLE
    /\ Reported
    /\ VariantCount(report.experiment_id) = 3
    /\ report.result.outcome = "return"
    /\ Len(ComparisonBlocks) = 2
    /\ PerformanceBlocks[1][3] = <<"Conversions:", 1>>

\* ---------------------------------------------------------------------- C8

\* The reports printed to standard output, in order.
PrintedReports ==
    LET lines == SelectSeq(stdout, LAMBDA l : l[1] = "report")
    IN  [i \in 1..Len(lines) |-> lines[i][2]]

\* main has loaded its input.
Loaded == pc \in {"reporting", "done"} \/ (pc = "crashed" /\ Len(stdout) >= 2)

\* C8 as stated: once the input is loaded, the text report of every analysed
\* experiment is printed to standard output, in either format.
C8_ReportAlwaysPrinted == Loaded => PrintedReports = reports

C8_Stdout ==
    Loaded => PrintedReports = IF args.format = "text" THEN reports ELSE <<>>

C8_File ==
    pc = "done" =>
        IF args.output = NoArg THEN outfile = <<>>
        ELSE /\ Len(outfile) = 1
             /\ outfile[1].format = args.format
             /\ args.format = "text" =>
                    /\ \A i \in 1..Len(reports) :
                           outfile[1].content[2 * i - 1] = reports[i]
                    /\ Len(outfile[1].content)
                         = IF reports = <<>> THEN 0 ELSE 2 * Len(reports) - 1
             /\ args.format = "json" =>
                    LET ids == IF args.experiment # NoArg THEN <<args.experiment>>
                               ELSE Keys(experiments)
                        out == outfile[1].content.experiments
                    IN  /\ Len(out) = Len(ids)
                        /\ \A i \in 1..Len(ids) :
                            /\ out[i].id = ids[i]
                            /\ out[i].variants
                                 = get_variant_results(experiments, ids[i])

\* C8 as amended: every report generate_report returns is printed to
\* standard output when the format is text and none is printed when it is
\* json; when main reaches the end and --output was given, the file holds
\* the text reports (text) or the structured variant results (json), and no
\* file is written otherwise.
C8_ReportPrintedInTextFormatOnly == C8_Stdout /\ C8_File

\* A json run with --output ended: a report was generated, none was printed
\* and the file holds the structured results.
C8_Witness ==
    /\ pc = "done"
    /\ args.format = "json"
    /\ args.output # NoArg
    /\ Len(reports) >= 1
    /\ PrintedReports = <<>>
    /\ Len(outfile) = 1
    /\ Len(outfile[1].content.experiments) >= 1

\* ---------------------------------------------------------------------- C9

C9_Order ==
    (/\ Reported
     /\ report.result.outcome = "return"
     /\ VariantCount(report.experiment_id) >= 2) =>
        LET order == FirstSeen(data, report.experiment_id, <<>>)
            perf  == PerformanceBlocks
            comp  == ComparisonBlocks
        IN  /\ Len(perf) = Len(order)
            /\ \A i \in 1..Len(order) : perf[i][1][3] = order[i]
            /\ Len(comp) = Len(order) - 1
            /\ \A k \in 1..Len(comp) :
                /\ comp[k][1][2] = perf[k + 1][1][2]
                /\ comp[k][1][3] = perf[1][1][2]

C9_Stable ==
    \A i \in 1..Len(experiments) :
        /\ Len(experiments') >= i
        /\ experiments'[i].id = experiments[i].id
        /\ \A j \in 1..Len(experiments[i].variants) :
            /\ Len(experiments'[i].variants) >= j
            /\ experiments'[i].variants[j].id = experiments[i].variants[j].id

\* C9: the control of a report is the variant of the experiment whose first
\* ab_test_assigned event comes earliest in the event list, the other
\* variants are compared against it in the order of their first assignment,
\* and no later event changes the position of a recorded variant.
C9_ControlIsFirstAssigned == [] C9_Order /\ [][C9_Stable]_vars

\* A report over three variants was returned whose control, B, was assigned
\* first and is not the first in name order, with a later event for it.
C9_Witness ==
    /\ Reported
    /\ report.result.outcome = "return"
    /\ report.experiment_id = "e1"
    /\ VariantCount("e1") = 3
    /\ PerformanceBlocks[1][1][3] = "B"
    /\ ComparisonBlocks[2][1][3] = "B"
    /\ data[Len(data)].variantId = "B"

\* --------------------------------------------------------------------- C10

\* C10 as stated: after aggregation every variant has conversions <=
\* total_users, so the non-conversion cell is not negative and
\* conversion_rate is at most 100.
C10_ConversionsWithinUsers ==
    \A x \in ExperimentIds :
        LET rs == get_variant_results(experiments, x)
        IN  \A i \in 1..Len(rs) :
                /\ rs[i].conversions <= rs[i].total_users
                /\ rs[i].total_users - rs[i].conversions >= 0
                /\ rs[i].conversion_rate.n <= 100 * rs[i].conversion_rate.d

====
